---- MODULE Spec2Model ----
(***************************************************************************)
(* Device liveness and power-cycle control: the HCS-3202 serial driver     *)
(* (commonLib/HCS_PS_Controller.py) and the reachability polling loops of  *)
(* CommonLibIPC (commonLib/CommonLib_IPC.py).                              *)
(*                                                                         *)
(* The program is single threaded.  One top-level call runs at a time      *)
(* (status = "running"); it ends by returning a value or by raising.       *)
(* Library and operating-system faults (pyserial, ping) are inputs drawn   *)
(* with \E inside the step that meets them.                                *)
(***************************************************************************)
EXTENDS Integers, Sequences, FiniteSets, TLC

VARIABLES
    instances,   \* Singleton._instances: key -> HCSControl object (or absent)
    status,      \* "idle" | "running" | "returned" | "raised": the top-level call
    op,          \* name of the current / last top-level operation
    cur,         \* key of the instance the call runs on
    phase,       \* position inside powercycle / power_cycle
    pc,          \* position inside the protocol call or the polling loop
    method,      \* protocol method being executed (also as a powercycle step)
    cmd,         \* command line the protocol call writes
    response,    \* response read from the device
    callEnd,     \* how the protocol call ended: "none" | "return" | "raise"
    callVal,     \* its return value: "True" | "False" | "num"
    res,         \* top-level return value: "none" | "True" | "False" | "num" | "obj"
    resNum,      \* numeric return value (get_voltage), in hundredths of a volt
    exc,         \* exception that left the top-level call: type and message
    written,     \* commands written to the device during the top-level call
    log,         \* events of the top-level call, in order
    steps,       \* powercycle: how each set_output_control step ended, in order
    output,      \* output state of the power supply: "on" | "off"
    voltage,     \* argument of set_voltage, in hundredths of a volt (0: other call)
    attempts,    \* polling: argument attempts
    delay,       \* polling: argument delay, in ticks
    within_sec,  \* polling: argument within_sec, in ticks
    attempt,     \* polling: loop variable
    now,         \* polling: time.perf_counter() - start_time, in ticks
    probedAt,    \* polling: tick at which the last answered ping was started
    downAt,      \* polling: tick from which the device no longer answers pings
    outcome,     \* polling: branch that ended the call
    resultsOf,   \* returned value -> outcomes that have produced it so far
    test,        \* test script: name of the test method running / run last
    tpc,         \* test script: position ("none" before the first, "done" after)
    calls,       \* test script: the calls it made, in order, each with its result
    result,      \* test script: the list `result` / the value returned
    exp_response, \* test_get_status: the list exp_response
    licIdx       \* test_get_status: position of the loop in license_file

vars == <<instances, status, op, cur, phase, pc, method, cmd, response, callEnd,
          callVal, res, resNum, exc, written, log, steps, output, voltage,
          attempts, delay, within_sec, attempt, now, probedAt, downAt, outcome, resultsOf,
          test, tpc, calls, result, exp_response, licIdx>>

driverVars == <<instances, cur, phase, method, cmd, response, callEnd, callVal,
                written, steps, output, voltage>>

pollVars == <<attempts, delay, within_sec, attempt, now, probedAt, downAt,
              outcome, resultsOf>>

testVars == <<test, tpc, calls, result, exp_response, licIdx>>

\* everything the test scripts' own steps leave alone
libVars == <<instances, status, op, cur, phase, pc, method, cmd, response, callEnd,
             callVal, res, resNum, exc, written, log, steps, output, voltage,
             attempts, delay, within_sec, attempt, now, probedAt, downAt, outcome,
             resultsOf>>

-----------------------------------------------------------------------------
(* Bounds of the model *)

\* largest value of the polling argument `attempts`
MaxAttempts == 3
\* largest value of the polling argument `delay`, in ticks
MaxDelay == 1
\* longest time one ping takes to return, in ticks
MaxProbeDur == 1
\* largest value of the argument `within_sec`, in ticks
MaxWithin == 4

-----------------------------------------------------------------------------
(* Program constants *)

\* VOLTAGE_MAX and VOLTAGE_MIN, in hundredths of a volt
VOLTAGE_MAX == 3600
VOLTAGE_MIN == 100
\* default baudrate of HCSControl.__init__
DefaultBaud == 9600

CR == "\r"

-----------------------------------------------------------------------------
(* Text: str(), f-strings, slicing and int() as Python computes them *)

DigitChars == <<"0", "1", "2", "3", "4", "5", "6", "7", "8", "9">>

IsDigit(c) == \E i \in 1..10 : DigitChars[i] = c

DigitVal(c) == (CHOOSE i \in 1..10 : DigitChars[i] = c) - 1

\* str(n) for an integer n >= 0
RECURSIVE IntToStr(_)
IntToStr(n) ==
    IF n < 10 THEN <<DigitChars[n + 1]>>
    ELSE IntToStr(n \div 10) \o <<DigitChars[(n % 10) + 1]>>

\* int(voltage * 10) for a voltage given in hundredths of a volt: int() truncates
IntTimes10(v) == v \div 10

\* the whole string instead of its first 4 characters
SliceAll(s) == s

\* s[0:4]
Slice4(s) == SubSeq(s, 1, IF Len(s) < 4 THEN Len(s) ELSE 4)

IsSpace(c) == c \in {CR, " ", "\n", "\t"}

RECURSIVE LStrip(_)
LStrip(s) == IF s # <<>> /\ IsSpace(Head(s)) THEN LStrip(Tail(s)) ELSE s

RECURSIVE RStrip(_)
RStrip(s) ==
    IF s # <<>> /\ IsSpace(s[Len(s)]) THEN RStrip(SubSeq(s, 1, Len(s) - 1)) ELSE s

Strip(s) == RStrip(LStrip(s))

RECURSIVE DigitsVal(_)
DigitsVal(s) ==
    IF s = <<>> THEN 0 ELSE 10 * DigitsVal(SubSeq(s, 1, Len(s) - 1)) + DigitVal(s[Len(s)])

\* int(s): surrounding whitespace is ignored; anything but digits is a ValueError
IntParses(s) == Strip(s) # <<>> /\ \A i \in 1..Len(Strip(s)) : IsDigit(Strip(s)[i])

IntOf(s) == DigitsVal(Strip(s))

OK == <<"O", "K", CR>>

-----------------------------------------------------------------------------
(* Commands (HCS_PS_Controller.py) *)

\* the polarity not inverted: 1 for True, 0 otherwise
SoutValDirect(set_output) == IF set_output = TRUE THEN 1 ELSE 0

\* set_output_control: val = 0 if set_output is True else 1; cmd = f"SOUT{val}\r"
SoutVal(set_output) == IF set_output = TRUE THEN 0 ELSE 1

SoutCmd(set_output) == <<"S", "O", "U", "T">> \o IntToStr(SoutVal(set_output)) \o <<CR>>

\* set_voltage: "0" + str(int(voltage * 10)) below 10 V, int(voltage * 10) otherwise
VoltageStr(v) ==
    IF v < 1000 THEN <<"0">> \o IntToStr(IntTimes10(v)) ELSE IntToStr(IntTimes10(v))

VoltCmd(v) == <<"V", "O", "L", "T">> \o VoltageStr(v) \o <<CR>>

GetdCmd == <<"G", "E", "T", "D", CR>>

\* the range check with the two bounds excluded
OutOfRangeExclusive(v) == v <= VOLTAGE_MIN \/ v >= VOLTAGE_MAX

\* line 200: `if voltage < VOLTAGE_MIN or voltage > VOLTAGE_MAX`
OutOfRange(v) == v < VOLTAGE_MIN \/ v > VOLTAGE_MAX

\* name of a command line, for the event log
CmdName(c) ==
    IF c = SoutCmd(TRUE) THEN "SOUT0"
    ELSE IF c = SoutCmd(FALSE) THEN "SOUT1"
    ELSE IF c = GetdCmd THEN "GETD"
    ELSE "VOLT"

-----------------------------------------------------------------------------
(* Inputs *)

\* baudrates a caller passes to HCSControl(...)
Bauds == {DefaultBaud, 19200}

\* positional argument tuples of HCSControl(...): the singleton's key is (cls, args)
Keys == {<<>>} \cup {<<b>> : b \in Bauds}

\* baudrate passed by keyword (<<>>: not passed)
KwArgs == {<<>>} \cup {<<b>> : b \in Bauds}

\* voltages passed to set_voltage, in hundredths of a volt
Voltages == {99, 100, 126, 999, 1000, 1234, 3600, 3601}

\* what read_until(expected=b"\r") returns after a SOUT or VOLT command
SetResponses == {OK, <<>>, <<"O", "K">>, <<"E", "R", CR>>}

\* what read_until(expected=b"\r") returns after GETD
GetResponses == {<<"0", "3", "6", "0", CR>>, <<"1", "2", "0", "0", "0", "5", "0", "0", CR>>,
                 <<"3", "6", CR>>, <<>>, <<"E", "R", CR>>}

\* an exception object: its class and the text it was raised with
Exc(t, m) == [type |-> t, msg |-> m]

\* no exception
NoExc == Exc("", "")

\* the text of an exception raised inside the try block of a protocol method or
\* by __close: int() and __close have their own, pyserial's is not modelled
TryMsg(t) ==
    IF t = "ValueError" THEN "invalid literal for int()"
    ELSE IF t = "ConnectionError" THEN "Serial Port could not be closed."
    ELSE ""

\* set_voltage's range error (line 201)
RangeError == Exc("ValueError", "Voltage out of range")

\* the first of two matching devices taken: only no match is an error
DiscoveryErrorFirstMatch(n) ==
    IF n = 0 THEN Exc("ValueError", "No device with signature found.") ELSE NoExc

\* HCSControl.__init__, lines 86-89: the error raised with n matching devices
DiscoveryError(n) ==
    IF n = 0 THEN Exc("ValueError", "No device with signature found.")
    ELSE IF n > 1 THEN Exc("ValueError", "More than one device with signature found.")
    ELSE NoExc

NoInstance == [exists |-> FALSE, is_open |-> FALSE, baudrate |-> 0]

\* number of serial devices list_ports.grep(device_signature) may find
Matches == 0..2

ProtocolMethods == {"set_output_control", "set_voltage", "get_voltage"}

-----------------------------------------------------------------------------
(* State after start-up: no driver object yet, nothing running *)

Init ==
    /\ instances = [k \in Keys |-> NoInstance]
    /\ status = "idle"
    /\ op = "none"
    /\ cur = <<>>
    /\ phase = "none"
    /\ pc = "none"
    /\ method = "none"
    /\ cmd = <<>>
    /\ response = <<>>
    /\ callEnd = "none"
    /\ callVal = "none"
    /\ res = "none"
    /\ resNum = 0
    /\ exc = NoExc
    /\ written = <<>>
    /\ log = <<>>
    /\ steps = <<>>
    /\ output = "on"
    /\ voltage = 0
    /\ attempts = 0
    /\ delay = 0
    /\ within_sec = 0
    /\ attempt = 0
    /\ now = 0
    /\ probedAt = 0
    /\ downAt = 0
    /\ outcome = "none"
    /\ resultsOf = [r \in {"True", "False"} |-> {}]
    /\ test = "none"
    /\ tpc = "none"
    /\ calls = <<>>
    /\ result = <<>>
    /\ exp_response = <<>>
    /\ licIdx = 0

\* no top-level call is running: the caller may make the next one
Idle == status # "running"

\* the per-call records of a polling call, cleared when a driver call starts
PollIdle ==
    /\ attempts' = 0
    /\ delay' = 0
    /\ within_sec' = 0
    /\ attempt' = 0
    /\ now' = 0
    /\ probedAt' = 0
    /\ downAt' = 0
    /\ outcome' = "none"
    /\ UNCHANGED resultsOf

\* a top-level driver call o starts; st, r, e say how far it got in this step
Begin(o, st, r, e) ==
    /\ status' = st
    /\ op' = o
    /\ res' = r
    /\ exc' = e
    /\ resNum' = 0
    /\ response' = <<>>
    /\ callEnd' = "none"
    /\ callVal' = "none"
    /\ written' = <<>>
    /\ log' = <<>>
    /\ steps' = <<>>
    /\ PollIdle

\* the object HCSControl.__init__ builds: serial.Serial(port=None, baudrate=...)
NewInstance(pos, kw) ==
    [exists |-> TRUE, is_open |-> FALSE,
     baudrate |-> IF pos # <<>> THEN pos[1] ELSE IF kw # <<>> THEN kw[1] ELSE DefaultBaud]

\* Singleton.__call__: index = cls, args; keyword arguments are not part of it
SingletonKey(pos, kw) == pos

\* HCSControl(pos..., kw...): Singleton.__call__, and HCSControl.__init__ when the
\* key is new.  n is the number of devices matching the signature.
Construct(pos, kw, n) ==
    /\ Idle
    /\ pos # <<>> => kw = <<>>
    /\ LET key == SingletonKey(pos, kw) IN
       IF instances[key].exists
       THEN /\ Begin("construct", "returned", "obj", NoExc)
            /\ cur' = key
            /\ UNCHANGED instances
       ELSE IF DiscoveryError(n) # NoExc
       THEN /\ Begin("construct", "raised", "none", DiscoveryError(n))
            /\ UNCHANGED <<instances, cur>>
       ELSE /\ Begin("construct", "returned", "obj", NoExc)
            /\ cur' = key
            /\ instances' = [instances EXCEPT ![key] = NewInstance(pos, kw)]
    /\ phase' = "none"
    /\ pc' = "none"
    /\ method' = "none"
    /\ cmd' = <<>>
    /\ voltage' = 0
    /\ UNCHANGED testVars
    /\ UNCHANGED output

\* a protocol method m starts on instance k with command line c: next is __open
StartProtocol(o, k, m, c, ph) ==
    /\ Begin(o, "running", "none", NoExc)
    /\ cur' = k
    /\ phase' = ph
    /\ pc' = "open"
    /\ method' = m
    /\ cmd' = c
    /\ UNCHANGED <<instances, output>>

\* hcs.set_output_control(set_output), up to the try statement
CallSetOutputControl(k, set_output) ==
    /\ Idle
    /\ instances[k].exists
    /\ StartProtocol("set_output_control", k, "set_output_control", SoutCmd(set_output), "none")
    /\ voltage' = 0
    /\ UNCHANGED testVars

\* hcs.set_voltage(voltage), up to the try statement: the range check raises
CallSetVoltage(k, v) ==
    /\ Idle
    /\ instances[k].exists
    /\ voltage' = v
    /\ UNCHANGED testVars
    /\ IF OutOfRange(v)
       THEN /\ Begin("set_voltage", "raised", "none", RangeError)
            /\ cur' = k
            /\ phase' = "none"
            /\ pc' = "none"
            /\ method' = "set_voltage"
            /\ cmd' = <<>>
            /\ UNCHANGED <<instances, output>>
       ELSE StartProtocol("set_voltage", k, "set_voltage", VoltCmd(v), "none")

\* hcs.get_voltage(), up to the try statement
CallGetVoltage(k) ==
    /\ Idle
    /\ instances[k].exists
    /\ StartProtocol("get_voltage", k, "get_voltage", GetdCmd, "none")
    /\ voltage' = 0
    /\ UNCHANGED testVars

\* hcs.powercycle(): first step is set_output_control(set_output=False)
CallPowercycle(k) ==
    /\ Idle
    /\ instances[k].exists
    /\ StartProtocol("powercycle", k, "set_output_control", SoutCmd(FALSE), "off")
    /\ voltage' = 0
    /\ UNCHANGED testVars

-----------------------------------------------------------------------------
(* The protocol call: __open, write, read_until().decode(), __close *)

\* the protocol method returns val to its caller
ProtocolReturns(val) ==
    /\ callEnd' = "return"
    /\ callVal' = val
    /\ pc' = "ret"
    /\ UNCHANGED exc

\* an exception of type e leaves the protocol method
ProtocolRaises(e) ==
    /\ callEnd' = "raise"
    /\ callVal' = "none"
    /\ pc' = "ret"
    /\ exc' = Exc(e, TryMsg(e))

\* exception handlers of the protocol methods: `except ConnectionError`
CaughtByProtocol(e) == e = "ConnectionError"

\* an exception e raised inside the try block of a protocol method
RaisedInTry(e) ==
    IF CaughtByProtocol(e) THEN ProtocolReturns("False") ELSE ProtocolRaises(e)

\* what the operating system's open and the two buffer resets of __open can do
OpenOutcomes == {"ok", "open_fail", "reset_fail"}

\* an open port taken for a closed one
AlreadyOpenIgnored(inst) == FALSE

\* the Serial object's port is open when __open runs: the assignment to its
\* port reopens it, and open() refuses a port that is already open
AlreadyOpen(inst) == inst.is_open

(* __open (lines 117-134) and the `if self.__open():` of the protocol method.   *)
(* A SerialException of open() or of a buffer reset is caught and gives False;  *)
(* after a failed buffer reset the port stays open.  On an object whose port    *)
(* is still open, the assignment to serial_inst.port (line 120, outside the     *)
(* try) closes and reopens the port, a failure of which is not caught, and      *)
(* open() then raises SerialException because the port is already open.         *)
DoOpen ==
    /\ status = "running"
    /\ pc = "open"
    /\ \E o \in OpenOutcomes :
         IF AlreadyOpen(instances[cur])
         THEN IF o = "open_fail"
              THEN /\ instances' = [instances EXCEPT ![cur].is_open = FALSE]
                   /\ RaisedInTry("SerialException")
              ELSE /\ ProtocolReturns("False")
                   /\ UNCHANGED instances
         ELSE IF o = "open_fail"
         THEN /\ ProtocolReturns("False")
              /\ UNCHANGED instances
         ELSE /\ instances' = [instances EXCEPT ![cur].is_open = TRUE]
              /\ IF o = "reset_fail"
                 THEN ProtocolReturns("False")
                 ELSE /\ pc' = "write"
                      /\ UNCHANGED <<callEnd, callVal, exc>>
    /\ UNCHANGED <<steps, voltage>>
    /\ UNCHANGED testVars
    /\ UNCHANGED <<status, op, cur, phase, method, cmd, response, res, resNum,
                   written, log, output>>
    /\ UNCHANGED pollVars

(* self.serial_inst.write(bytes(cmd, encoding="utf-8")): a write timeout or a   *)
(* lost device raises SerialException                                           *)
DoWrite ==
    /\ status = "running"
    /\ pc = "write"
    /\ \E ok \in BOOLEAN :
         IF ok
         THEN /\ written' = Append(written, cmd)
              /\ log' = Append(log, CmdName(cmd))
              /\ pc' = "read"
              /\ UNCHANGED <<callEnd, callVal, exc>>
         ELSE /\ RaisedInTry("SerialException")
              /\ UNCHANGED <<written, log>>
    /\ UNCHANGED <<steps, voltage>>
    /\ UNCHANGED testVars
    /\ UNCHANGED <<instances, status, op, cur, phase, method, cmd, response, res,
                   resNum, output>>
    /\ UNCHANGED pollVars

\* what the read can give: a line, a SerialException, or bytes decode() rejects
ReadOutcomes(m) ==
    {[kind |-> "data", data |-> d] :
        d \in IF m = "get_voltage" THEN GetResponses ELSE SetResponses}
    \cup {[kind |-> "SerialException", data |-> <<>>],
          [kind |-> "UnicodeDecodeError", data |-> <<>>]}

\* the supply switches its output when it has accepted a SOUT command
OutputAfter(c, r, old) ==
    IF r = OK /\ c = SoutCmd(TRUE) THEN "on"
    ELSE IF r = OK /\ c = SoutCmd(FALSE) THEN "off"
    ELSE old

\* response = self.serial_inst.read_until(expected=b"\r").decode("ascii")
DoRead ==
    /\ status = "running"
    /\ pc = "read"
    /\ \E r \in ReadOutcomes(method) :
         IF r.kind = "data"
         THEN /\ response' = r.data
              /\ output' = OutputAfter(cmd, r.data, output)
              /\ pc' = "close"
              /\ UNCHANGED <<callEnd, callVal, exc>>
         ELSE /\ RaisedInTry(r.kind)
              /\ UNCHANGED <<response, output>>
    /\ UNCHANGED <<steps, voltage>>
    /\ UNCHANGED testVars
    /\ UNCHANGED <<instances, status, op, cur, phase, method, cmd, res, resNum,
                   written, log>>
    /\ UNCHANGED pollVars

\* what __close can do: close the port, leave it open, or fail in a buffer reset
CloseOutcomes == {"ok", "still_open", "reset_fail"}

\* is_open after __close ran with outcome c
OpenAfterClose(c) == c # "ok"

\* a failed close not reported
CloseRaisesNever(c) == ""

\* the exception __close raises with outcome c ("" if none)
CloseRaises(c) ==
    IF c = "reset_fail" THEN "SerialException"
    ELSE IF c = "still_open" THEN "ConnectionError"
    ELSE ""

\* any response that is not empty counted as success
SetResultLenient(r) == IF r = <<>> THEN "False" ELSE "True"

\* set_output_control / set_voltage after __close: response != "OK\r" gives False
SetResult(r) == IF r # OK THEN "False" ELSE "True"

(* self.__close() (lines 136-145) and the rest of the try block: the comparison *)
(* with "OK\r", or int(response[0:4]) / float(100) in get_voltage              *)
DoClose ==
    /\ status = "running"
    /\ pc = "close"
    /\ \E c \in CloseOutcomes :
         /\ instances' = [instances EXCEPT ![cur].is_open = OpenAfterClose(c)]
         /\ IF CloseRaises(c) # ""
            THEN /\ RaisedInTry(CloseRaises(c))
                 /\ UNCHANGED resNum
            ELSE IF method = "get_voltage"
            THEN IF IntParses(Slice4(response))
                 THEN /\ ProtocolReturns("num")
                      /\ resNum' = IntOf(Slice4(response))
                 ELSE /\ RaisedInTry("ValueError")
                      /\ UNCHANGED resNum
            ELSE /\ ProtocolReturns(SetResult(response))
                 /\ UNCHANGED resNum
    /\ UNCHANGED <<steps, voltage>>
    /\ UNCHANGED testVars
    /\ UNCHANGED <<status, op, cur, phase, method, cmd, response, res, written,
                   log, output>>
    /\ UNCHANGED pollVars

\* the top-level call ends as the protocol method ended
EndAsProtocol ==
    /\ status' = IF callEnd = "raise" THEN "raised" ELSE "returned"
    /\ res' = callVal
    /\ pc' = "none"
    /\ phase' = "none"
    /\ UNCHANGED <<instances, op, cur, method, cmd, response, callEnd, callVal,
                   resNum, exc, written, log, output>>
    /\ UNCHANGED pollVars

\* set_output_control, set_voltage or get_voltage, called directly, is over
ReturnProtocol ==
    /\ status = "running"
    /\ op \in ProtocolMethods
    /\ pc = "ret"
    /\ EndAsProtocol
    /\ UNCHANGED <<steps, voltage>>
    /\ UNCHANGED testVars

-----------------------------------------------------------------------------
(* HCSControl.powercycle (lines 245-270) and CommonLibIPC.power_cycle *)

PowercycleOps == {"powercycle", "power_cycle"}

\* the result of a step not looked at
StepFailedNever(val) == FALSE

\* `if self.set_output_control(...) is False`: the step counts as failed
StepFailed(val) == val = "False"

(* powercycle is over (callEnd, callVal hold how).  Called directly, the call   *)
(* ends; inside power_cycle's with statement __exit__ runs next.                *)
EndPowercycle ==
    IF op = "powercycle"
    THEN EndAsProtocol
    ELSE /\ phase' = "exit"
         /\ pc' = "none"
         /\ UNCHANGED <<instances, status, op, cur, method, cmd, response, callEnd,
                        callVal, res, resNum, exc, written, log, output>>
         /\ UNCHANGED pollVars

\* a step of powercycle whose set_output_control raised or returned False
StepEndsPowercycle == callEnd = "raise" \/ StepFailed(callVal)

\* how the set_output_control step of powercycle that just ended, ended
StepEnd == IF callEnd = "raise" THEN "raise" ELSE callVal

\* lines 258-260: the output-off step has ended
PowercycleAfterOff ==
    /\ status = "running"
    /\ op \in PowercycleOps
    /\ phase = "off"
    /\ pc = "ret"
    /\ steps' = Append(steps, StepEnd)
    /\ UNCHANGED voltage
    /\ UNCHANGED testVars
    /\ IF StepEndsPowercycle
       THEN EndPowercycle
       ELSE /\ phase' = "sleep"
            /\ pc' = "none"
            /\ UNCHANGED <<instances, status, op, cur, method, cmd, response, callEnd,
                           callVal, res, resNum, exc, written, log, output>>
            /\ UNCHANGED pollVars

\* lines 262-266: time.sleep(wait_sec), then set_output_control(set_output=True)
PowercycleSleep ==
    /\ status = "running"
    /\ op \in PowercycleOps
    /\ phase = "sleep"
    /\ log' = Append(log, "sleep")
    /\ phase' = "on"
    /\ pc' = "open"
    /\ method' = "set_output_control"
    /\ cmd' = SoutCmd(TRUE)
    /\ response' = <<>>
    /\ callEnd' = "none"
    /\ callVal' = "none"
    /\ UNCHANGED <<steps, voltage>>
    /\ UNCHANGED testVars
    /\ UNCHANGED <<instances, status, op, cur, res, resNum, exc, written, output>>
    /\ UNCHANGED pollVars

\* the value powercycle returns once the output-on step has returned val
PowercycleResult(val) == IF StepFailed(val) THEN "False" ELSE "True"

\* lines 266-270: the output-on step has ended
PowercycleAfterOn ==
    /\ status = "running"
    /\ op \in PowercycleOps
    /\ phase = "on"
    /\ pc = "ret"
    /\ steps' = Append(steps, StepEnd)
    /\ UNCHANGED voltage
    /\ UNCHANGED testVars
    /\ IF callEnd = "raise"
       THEN EndPowercycle
       ELSE IF op = "powercycle"
       THEN /\ status' = "returned"
            /\ res' = PowercycleResult(callVal)
            /\ pc' = "none"
            /\ phase' = "none"
            /\ UNCHANGED <<instances, op, cur, method, cmd, response, callEnd, callVal,
                           resNum, exc, written, log, output>>
            /\ UNCHANGED pollVars
       ELSE /\ callVal' = PowercycleResult(callVal)
            /\ phase' = "exit"
            /\ pc' = "none"
            /\ UNCHANGED <<instances, status, op, cur, method, cmd, response, callEnd,
                           res, resNum, exc, written, log, output>>
            /\ UNCHANGED pollVars

(* CommonLibIPC.power_cycle (lines 240-242): `with HCSControl() as hcs:`.  The  *)
(* object is built on first use (n matching devices); then hcs.powercycle().    *)
CallPowerCycle(n) ==
    /\ Idle
    /\ voltage' = 0
    /\ UNCHANGED testVars
    /\ LET key == SingletonKey(<<>>, <<>>) IN
       IF ~instances[key].exists /\ DiscoveryError(n) # NoExc
       THEN /\ Begin("power_cycle", "raised", "none", DiscoveryError(n))
            /\ phase' = "none"
            /\ pc' = "none"
            /\ method' = "none"
            /\ cmd' = <<>>
            /\ UNCHANGED <<instances, cur, output>>
       ELSE /\ Begin("power_cycle", "running", "none", NoExc)
            /\ instances' = IF instances[key].exists THEN instances
                             ELSE [instances EXCEPT ![key] = NewInstance(<<>>, <<>>)]
            /\ cur' = key
            /\ phase' = "off"
            /\ pc' = "open"
            /\ method' = "set_output_control"
            /\ cmd' = SoutCmd(FALSE)
            /\ UNCHANGED output

\* the result of powercycle dropped, as in the module-level powercycle()
PowerCycleResultIgnored(val) == "True"

\* the value power_cycle returns when powercycle returned val: `return hcs.powercycle()`
PowerCycleResult(val) == val

(* __exit__ (lines 113-115) as the with statement is left: __close() if the     *)
(* port is open; an exception of __close replaces the result of the body.       *)
IpcExit ==
    /\ status = "running"
    /\ op = "power_cycle"
    /\ phase = "exit"
    /\ IF instances[cur].is_open
       THEN \E c \in CloseOutcomes :
              /\ instances' = [instances EXCEPT ![cur].is_open = OpenAfterClose(c)]
              /\ IF CloseRaises(c) # ""
                 THEN /\ status' = "raised"
                      /\ exc' = Exc(CloseRaises(c), TryMsg(CloseRaises(c)))
                      /\ res' = "none"
                 ELSE /\ status' = IF callEnd = "raise" THEN "raised" ELSE "returned"
                      /\ res' = IF callEnd = "raise" THEN "none" ELSE PowerCycleResult(callVal)
                      /\ UNCHANGED exc
       ELSE /\ status' = IF callEnd = "raise" THEN "raised" ELSE "returned"
            /\ res' = IF callEnd = "raise" THEN "none" ELSE PowerCycleResult(callVal)
            /\ UNCHANGED <<instances, exc>>
    /\ phase' = "none"
    /\ pc' = "none"
    /\ UNCHANGED <<steps, voltage>>
    /\ UNCHANGED testVars
    /\ UNCHANGED <<op, cur, method, cmd, response, callEnd, callVal, resNum, written,
                   log, output>>
    /\ UNCHANGED pollVars

-----------------------------------------------------------------------------
(* The polling loops of CommonLibIPC (CommonLib_IPC.py lines 51-109) *)

\* the longest a call of check_time_before_restart can take, in ticks
Horizon == MaxAttempts * (2 * MaxDelay + MaxProbeDur)

\* value of downAt while the device still answers
NotDown == Horizon + 1

\* a top-level polling call o starts
BeginPoll(o, st, r) ==
    /\ status' = st
    /\ op' = o
    /\ res' = r
    /\ exc' = NoExc
    /\ resNum' = 0
    /\ response' = <<>>
    /\ callEnd' = "none"
    /\ callVal' = "none"
    /\ written' = <<>>
    /\ log' = <<>>
    /\ steps' = <<>>
    /\ phase' = "none"
    /\ method' = "none"
    /\ cmd' = <<>>
    /\ now' = 0
    /\ probedAt' = 0
    /\ voltage' = 0
    /\ UNCHANGED testVars
    /\ UNCHANGED <<instances, cur, output>>

\* the loop body entered whatever the number of attempts
LoopEmptyNever(a) == FALSE

\* range(1, attempts + 1) is empty
LoopEmpty(a) == a < 1

\* is_controller_reachable(attempts=a, delay=d), up to the first ping
CallIsControllerReachable(a, d) ==
    /\ Idle
    /\ attempts' = a
    /\ delay' = d
    /\ within_sec' = 0
    /\ downAt' = 0
    /\ IF LoopEmpty(a)
       THEN /\ BeginPoll("is_controller_reachable", "returned", "False")
            /\ attempt' = 0
            /\ pc' = "none"
            /\ outcome' = "exhausted"
       ELSE /\ BeginPoll("is_controller_reachable", "running", "none")
            /\ attempt' = 1
            /\ pc' = "probe"
            /\ outcome' = "none"
    /\ UNCHANGED resultsOf

\* the polling call returns r; oc names the branch taken
PollReturns(r, oc) ==
    /\ status' = "returned"
    /\ res' = r
    /\ outcome' = oc
    /\ pc' = "none"

\* what one ping can do: returncode 0, returncode # 0, or subprocess.run raises
ProbeResults == {"probeR", "probeU", "probeE"}

\* no ping ever counted as answered
AnsweredNever(p) == FALSE

\* `if result.returncode == 0` (lines 60 and 87): the ping was answered
Answered(p) == p = "probeR"

\* a probe error retried like an unanswered ping
ErrorRetried(p) == FALSE

\* `except Exception as e: ... return False` (lines 66-68 and 101-103)
ErrorEndsCall(p) == p = "probeE"

\* a sleep after every unanswered ping, the last one included
ReachSleepsAlways(att, a) == TRUE

\* line 70: `if attempt < attempts` before the sleep of is_controller_reachable
ReachSleeps(att, a) == att < a

(* One iteration of is_controller_reachable up to its sleep (lines 54-70)       *)
ReachProbe ==
    /\ status = "running"
    /\ op = "is_controller_reachable"
    /\ pc = "probe"
    /\ \E p \in ProbeResults :
         /\ log' = Append(log, p)
         /\ IF ErrorEndsCall(p) THEN PollReturns("False", "probe_error")
            ELSE IF Answered(p) THEN PollReturns("True", "reachable")
            ELSE IF ReachSleeps(attempt, attempts)
            THEN /\ pc' = "sleep"
                 /\ UNCHANGED <<status, res, outcome>>
            ELSE PollReturns("False", "exhausted")
    /\ UNCHANGED <<steps, voltage>>
    /\ UNCHANGED testVars
    /\ UNCHANGED <<instances, op, cur, phase, method, cmd, response, callEnd, callVal,
                   resNum, exc, written, output>>
    /\ UNCHANGED <<attempts, delay, within_sec, attempt, now, probedAt, downAt,
                   resultsOf>>

\* line 71: time.sleep(delay), then the next iteration
ReachSleep ==
    /\ status = "running"
    /\ op = "is_controller_reachable"
    /\ pc = "sleep"
    /\ log' = Append(log, "sleep")
    /\ now' = now + delay
    /\ attempt' = attempt + 1
    /\ pc' = "probe"
    /\ UNCHANGED <<steps, voltage>>
    /\ UNCHANGED testVars
    /\ UNCHANGED <<instances, status, op, cur, phase, method, cmd, response, callEnd,
                   callVal, res, resNum, exc, written, output>>
    /\ UNCHANGED <<attempts, delay, within_sec, probedAt, downAt, outcome, resultsOf>>

(* check_time_before_restart(within_sec=w, attempts=a, delay=d), up to the      *)
(* first ping: start_time = time.perf_counter()                                 *)
CallCheckTime(w, a, d) ==
    /\ Idle
    /\ attempts' = a
    /\ delay' = d
    /\ within_sec' = w
    /\ downAt' = NotDown
    /\ IF LoopEmpty(a)
       THEN /\ BeginPoll("check_time_before_restart", "returned", "False")
            /\ attempt' = 0
            /\ pc' = "none"
            /\ outcome' = "never_down"
            /\ resultsOf' = [resultsOf EXCEPT !["False"] = @ \cup {"never_down"}]
       ELSE /\ BeginPoll("check_time_before_restart", "running", "none")
            /\ attempt' = 1
            /\ pc' = "probe"
            /\ outcome' = "none"
            /\ UNCHANGED resultsOf

\* the window compared with `<`
InTimeStrict(elapsed, w) == elapsed < w

\* line 92: `if elapsed <= within_sec`
InTime(elapsed, w) == elapsed <= w

\* success at the first unreachable ping whatever the elapsed time
WindowResultAlwaysTrue(elapsed, w) == "True"

\* failure at the first unreachable ping whatever the elapsed time
WindowResultNever(elapsed, w) == "False"

\* the value check_time_before_restart returns at the first unreachable ping
WindowResult(elapsed, w) == IF InTime(elapsed, w) THEN "True" ELSE "False"

WindowOutcome(elapsed, w) == IF InTime(elapsed, w) THEN "in_time" ELSE "too_late"

(* The device answers every ping started before the tick at which it goes      *)
(* down and none from then on.  A ping started at tick t0 that finds it down    *)
(* shows that it went down after the last answered ping and no later than t0    *)
(* (at tick 0, for the first ping: it was down when the call started).          *)
WentDownAt(p, t0) ==
    IF p # "probeU" THEN {NotDown}
    ELSE IF attempt = 1 THEN {0}
    ELSE (probedAt + 1)..t0

(* One iteration of check_time_before_restart up to its first sleep (lines      *)
(* 81-97, 101-103).  The ping takes dur ticks; elapsed is read when it is back. *)
CheckProbe ==
    /\ status = "running"
    /\ op = "check_time_before_restart"
    /\ pc = "probe"
    /\ \E dur \in 0..MaxProbeDur, p \in ProbeResults :
         LET elapsed == now + dur
         IN /\ log' = Append(log, p)
            /\ now' = elapsed
            /\ probedAt' = now
            /\ \E t \in WentDownAt(p, now) : downAt' = t
            /\ IF ErrorEndsCall(p)
               THEN /\ PollReturns("False", "probe_error")
                    /\ resultsOf' = [resultsOf EXCEPT !["False"] = @ \cup {"probe_error"}]
               ELSE IF Answered(p)
               THEN /\ pc' = "sleep_in_try"
                    /\ UNCHANGED <<status, res, outcome, resultsOf>>
               ELSE /\ PollReturns(WindowResult(elapsed, within_sec),
                                   WindowOutcome(elapsed, within_sec))
                    /\ resultsOf' = [resultsOf EXCEPT ![WindowResult(elapsed, within_sec)] =
                                        @ \cup {WindowOutcome(elapsed, within_sec)}]
    /\ UNCHANGED <<steps, voltage>>
    /\ UNCHANGED testVars
    /\ UNCHANGED <<instances, op, cur, phase, method, cmd, response, callEnd, callVal,
                   resNum, exc, written, output>>
    /\ UNCHANGED <<attempts, delay, within_sec, attempt>>

\* line 105: `if attempt < attempts` before the second sleep
CheckSleepsAgain(att, a) == att < a

(* line 99: time.sleep(delay) inside the try block, after a reachable ping; the *)
(* loop ends after the last attempt (lines 108-109)                             *)
CheckSleepInTry ==
    /\ status = "running"
    /\ op = "check_time_before_restart"
    /\ pc = "sleep_in_try"
    /\ log' = Append(log, "sleep")
    /\ now' = now + delay
    /\ IF CheckSleepsAgain(attempt, attempts)
       THEN /\ pc' = "sleep_after"
            /\ UNCHANGED <<status, res, outcome, resultsOf>>
       ELSE /\ PollReturns("False", "never_down")
            /\ resultsOf' = [resultsOf EXCEPT !["False"] = @ \cup {"never_down"}]
    /\ UNCHANGED <<steps, voltage>>
    /\ UNCHANGED testVars
    /\ UNCHANGED <<instances, op, cur, phase, method, cmd, response, callEnd, callVal,
                   resNum, exc, written, output>>
    /\ UNCHANGED <<attempts, delay, within_sec, attempt, probedAt, downAt>>

\* line 106: the second time.sleep(delay), then the next iteration
CheckSleepAfter ==
    /\ status = "running"
    /\ op = "check_time_before_restart"
    /\ pc = "sleep_after"
    /\ log' = Append(log, "sleep")
    /\ now' = now + delay
    /\ attempt' = attempt + 1
    /\ pc' = "probe"
    /\ UNCHANGED <<steps, voltage>>
    /\ UNCHANGED testVars
    /\ UNCHANGED <<instances, status, op, cur, phase, method, cmd, response, callEnd,
                   callVal, res, resNum, exc, written, output>>
    /\ UNCHANGED <<attempts, delay, within_sec, probedAt, downAt, outcome, resultsOf>>

-----------------------------------------------------------------------------
(* The test scripts: test_reboot, test_factory_reset, test_get_status.
   Each call a test makes to CommonLibIPC is one step, together with the
   branch on its result that follows it; the result is any value the called
   function can return. *)

TestNames == {"test_reboot", "test_factory_reset", "test_get_status"}

\* get_token: the accessToken of the response, or None
Tokens == {"tok", "", "None"}

\* `if not token`
TruthyAlways(t) == TRUE

Truthy(t) == t \notin {"", "None"}

\* status codes a request helper returns: 0 after a RequestException, else
\* the code of a response that passed raise_for_status
StatusCodes == {0, 200, 204}

\* `status_code == 200`
AnyStatus(c) == TRUE

Is200(c) == c = 200

\* the license files of testcase 473617 and one entry of no file of the list
license_file == <<"PNM0001.lic", "PNS0001.lic">>

\* the dict lic built from the i-th license file
Lic(i) == [name |-> license_file[i], me_order |-> i]

OtherLic == [name |-> "other", me_order |-> 0]

\* license-status responses, each as the set of the entries of the list
StatusResponses == SUBSET {Lic(1), Lic(2), OtherLic}

\* activate_license: status code with the errCode and AlreadyActivated of the
\* response (after a RequestException the code is 0 and the response is [])
ActivateResults ==
    {[status_code |-> 200, errCode |-> 0, AlreadyActivated |-> FALSE],
     [status_code |-> 200, errCode |-> 0, AlreadyActivated |-> TRUE],
     [status_code |-> 200, errCode |-> 1, AlreadyActivated |-> FALSE],
     [status_code |-> 0, errCode |-> 1, AlreadyActivated |-> FALSE]}

Activated(a) == a.status_code = 200 /\ a.errCode = 0 /\ a.AlreadyActivated = FALSE

\* the elements of a list
Elems(seq) == {seq[i] : i \in 1..Len(seq)}

\* all(elem in exp_response for elem in response)
StatusMatches(resp, exp) == \A elem \in resp : elem \in Elems(exp)

Call(f, r) == [f |-> f, r |-> r]

TestIdle == tpc \in {"none", "done"}

\* run.py calls a test method
StartTest(t) ==
    /\ TestIdle
    /\ test' = t
    /\ tpc' = "reachable"
    /\ calls' = <<>>
    /\ result' = IF t = "test_factory_reset" THEN <<FALSE, FALSE, FALSE>> ELSE <<>>
    /\ exp_response' = <<>>
    /\ licIdx' = 0
    /\ UNCHANGED libVars

\* return False (test_reboot, test_get_status) / return result
TestFails ==
    /\ tpc' = "done"
    /\ result' = IF test = "test_factory_reset" THEN result ELSE <<FALSE>>

\* return True
TestPasses ==
    /\ tpc' = "done"
    /\ result' = <<TRUE>>

\* precondition: DUT is available
TestReachable ==
    /\ tpc = "reachable"
    /\ \E r \in BOOLEAN :
        /\ calls' = Append(calls, Call("is_controller_reachable", r))
        /\ IF r
             THEN /\ tpc' = IF test = "test_get_status" THEN "remove_license"
                                                        ELSE "get_token"
                  /\ UNCHANGED result
             ELSE TestFails
    /\ UNCHANGED <<test, exp_response, licIdx>>
    /\ UNCHANGED libVars

\* test_get_status: remove existing license files
TestRemoveLicense ==
    /\ tpc = "remove_license"
    /\ \E r \in BOOLEAN :
        /\ calls' = Append(calls, Call("remove_license", r))
        /\ IF r
             THEN tpc' = "get_token" /\ UNCHANGED result
             ELSE TestFails
    /\ UNCHANGED <<test, exp_response, licIdx>>
    /\ UNCHANGED libVars

\* get token to authenticate API requests
TestGetToken ==
    /\ tpc = "get_token"
    /\ \E t \in Tokens :
        /\ calls' = Append(calls, Call("get_token", t))
        /\ IF Truthy(t)
             THEN /\ tpc' = CASE test = "test_reboot" -> "reboot"
                              [] test = "test_factory_reset" -> "factory_reset"
                              [] OTHER -> "status_empty"
                  /\ UNCHANGED result
             ELSE TestFails
    /\ UNCHANGED <<test, exp_response, licIdx>>
    /\ UNCHANGED libVars

\* test_reboot step 1: execute reboot
RebootRequest ==
    /\ tpc = "reboot"
    /\ \E c \in StatusCodes :
        /\ calls' = Append(calls, Call("reboot", c))
        /\ IF Is200(c)
             THEN tpc' = "sleep" /\ UNCHANGED result
             ELSE TestFails
    /\ UNCHANGED <<test, exp_response, licIdx>>
    /\ UNCHANGED libVars

\* test_reboot: time.sleep(5)
RebootSleep ==
    /\ tpc = "sleep"
    /\ calls' = Append(calls, Call("time.sleep", 5))
    /\ tpc' = "reachable_after"
    /\ UNCHANGED <<test, result, exp_response, licIdx>>
    /\ UNCHANGED libVars

\* test_reboot: wait for controller to reboot
RebootReachableAfter ==
    /\ tpc = "reachable_after"
    /\ test = "test_reboot"
    /\ \E r \in BOOLEAN :
        /\ calls' = Append(calls, Call("is_controller_reachable", r))
        /\ IF r THEN TestPasses ELSE TestFails
    /\ UNCHANGED <<test, exp_response, licIdx>>
    /\ UNCHANGED libVars

\* test_factory_reset step 1: execute factory reset
FactoryResetRequest ==
    /\ tpc = "factory_reset"
    /\ \E c \in StatusCodes :
        /\ calls' = Append(calls, Call("factory_reset", c))
        /\ result' = IF Is200(c) THEN [result EXCEPT ![1] = TRUE] ELSE result
    /\ tpc' = "check_time"
    /\ UNCHANGED <<test, exp_response, licIdx>>
    /\ UNCHANGED libVars

\* test_factory_reset step 2: check that Controller restarts after ~3 seconds
FactoryResetCheckTime ==
    /\ tpc = "check_time"
    /\ \E r \in BOOLEAN :
        /\ calls' = Append(calls, Call("check_time_before_restart", r))
        /\ result' = IF r THEN [result EXCEPT ![2] = TRUE] ELSE result
    /\ tpc' = "reachable_after"
    /\ UNCHANGED <<test, exp_response, licIdx>>
    /\ UNCHANGED libVars

\* test_factory_reset: wait for controller to reboot
FactoryResetReachableAfter ==
    /\ tpc = "reachable_after"
    /\ test = "test_factory_reset"
    /\ \E r \in BOOLEAN :
        /\ calls' = Append(calls, Call("is_controller_reachable", r))
        /\ tpc' = IF r THEN "initial_user" ELSE "done"
    /\ UNCHANGED <<test, result, exp_response, licIdx>>
    /\ UNCHANGED libVars

\* test_factory_reset step 3: check if the DUT has restarted
FactoryResetInitialUser ==
    /\ tpc = "initial_user"
    /\ \E c \in StatusCodes, b \in BOOLEAN :
        /\ c = 0 => b = FALSE
        /\ calls' = Append(calls, Call("get_initial_user", <<c, b>>))
        /\ result' = IF Is200(c) /\ b = TRUE THEN [result EXCEPT ![3] = TRUE]
                                             ELSE result
    /\ tpc' = "done"
    /\ UNCHANGED <<test, exp_response, licIdx>>
    /\ UNCHANGED libVars

\* the loop over license_file: its next round, or return True after the last
NextLicense(i) ==
    IF i < Len(license_file)
      THEN licIdx' = i + 1 /\ tpc' = "license_info" /\ UNCHANGED result
      ELSE licIdx' = i /\ TestPasses

\* test_get_status step 1: get status
GetStatusEmpty ==
    /\ tpc = "status_empty"
    /\ \E c \in {0, 200}, resp \in StatusResponses :
        /\ calls' = Append(calls, Call("get_license_status", <<c, resp>>))
        /\ IF Is200(c) /\ resp = {}
             THEN NextLicense(0)
             ELSE TestFails /\ UNCHANGED licIdx
    /\ UNCHANGED <<test, exp_response>>
    /\ UNCHANGED libVars

\* test_get_status: me_order and license name from the license file, and the
\* update of the expected response
GetStatusLicenseInfo ==
    /\ tpc = "license_info"
    /\ \E order_number \in BOOLEAN, license_name \in BOOLEAN :
        /\ calls' = Append(calls, Call("_get_license_info",
                                       <<order_number, license_name>>))
        /\ IF order_number /\ license_name
             THEN /\ exp_response' = Append(exp_response, Lic(licIdx))
                  /\ tpc' = "activate"
                  /\ UNCHANGED result
             ELSE TestFails /\ UNCHANGED exp_response
    /\ UNCHANGED <<test, licIdx>>
    /\ UNCHANGED libVars

\* test_get_status step 2: activate a valid license
GetStatusActivate ==
    /\ tpc = "activate"
    /\ \E a \in ActivateResults :
        /\ calls' = Append(calls, Call("activate_license", a))
        /\ IF Activated(a)
             THEN tpc' = "status" /\ UNCHANGED result
             ELSE TestFails
    /\ UNCHANGED <<test, exp_response, licIdx>>
    /\ UNCHANGED libVars

\* test_get_status step 3: get status again
GetStatusAgain ==
    /\ tpc = "status"
    /\ \E c \in {0, 200}, resp \in StatusResponses :
        /\ calls' = Append(calls, Call("get_license_status", <<c, resp>>))
        /\ IF Is200(c) /\ StatusMatches(resp, exp_response)
             THEN NextLicense(licIdx)
             ELSE TestFails /\ UNCHANGED licIdx
    /\ UNCHANGED <<test, exp_response>>
    /\ UNCHANGED libVars

-----------------------------------------------------------------------------
(* Specifications *)

\* the serial driver and the power cycle
NextDriver ==
    \/ \E pos \in Keys, kw \in KwArgs, n \in Matches : Construct(pos, kw, n)
    \/ \E k \in Keys, b \in BOOLEAN : CallSetOutputControl(k, b)
    \/ \E k \in Keys, v \in Voltages : CallSetVoltage(k, v)
    \/ \E k \in Keys : CallGetVoltage(k)
    \/ \E k \in Keys : CallPowercycle(k)
    \/ \E n \in Matches : CallPowerCycle(n)
    \/ DoOpen
    \/ DoWrite
    \/ DoRead
    \/ DoClose
    \/ ReturnProtocol
    \/ PowercycleAfterOff
    \/ PowercycleSleep
    \/ PowercycleAfterOn
    \/ IpcExit

\* the reachability polling loops
NextPoll ==
    \/ \E a \in 0..MaxAttempts, d \in 0..MaxDelay : CallIsControllerReachable(a, d)
    \/ \E w \in 0..MaxWithin, a \in 0..MaxAttempts, d \in 0..MaxDelay :
          CallCheckTime(w, a, d)
    \/ ReachProbe
    \/ ReachSleep
    \/ CheckProbe
    \/ CheckSleepInTry
    \/ CheckSleepAfter

\* the test scripts
NextTests ==
    \/ \E t \in TestNames : StartTest(t)
    \/ TestReachable
    \/ TestRemoveLicense
    \/ TestGetToken
    \/ RebootRequest
    \/ RebootSleep
    \/ RebootReachableAfter
    \/ FactoryResetRequest
    \/ FactoryResetCheckTime
    \/ FactoryResetReachableAfter
    \/ FactoryResetInitialUser
    \/ GetStatusEmpty
    \/ GetStatusLicenseInfo
    \/ GetStatusActivate
    \/ GetStatusAgain

Next == NextDriver \/ NextPoll \/ NextTests

SpecDriver == Init /\ [][NextDriver]_vars

SpecPoll == Init /\ [][NextPoll]_vars

SpecTests == Init /\ [][NextTests]_vars

Spec == Init /\ [][Next]_vars

\* every ping (subprocess.run) and every time.sleep returns: a polling call
\* that can take its next step takes it
PollStep ==
    \/ ReachProbe
    \/ ReachSleep
    \/ CheckProbe
    \/ CheckSleepInTry
    \/ CheckSleepAfter

PollFairness == WF_vars(PollStep)

\* the polling loops with pings and sleeps that return
SpecPollLive == Init /\ [][NextPoll]_vars /\ PollFairness

-----------------------------------------------------------------------------
(* Helpers for the properties *)

RECURSIVE Count(_, _)
Count(seq, x) ==
    IF seq = <<>> THEN 0 ELSE (IF Head(seq) = x THEN 1 ELSE 0) + Count(Tail(seq), x)

Events(seq) == {seq[i] : i \in 1..Len(seq)}

IsProbe(e) == e \in ProbeResults

Probes(seq) == Count(seq, "probeR") + Count(seq, "probeU") + Count(seq, "probeE")

Ended == status \in {"returned", "raised"}

DriverOps == ProtocolMethods \cup PowercycleOps

OpenSessions == {k \in Keys : instances[k].is_open}

ReachEnded == op = "is_controller_reachable" /\ Ended

CheckEnded == op = "check_time_before_restart" /\ Ended

WindowOutcomes == {"in_time", "too_late", "never_down"}

-----------------------------------------------------------------------------
(* C1..C10 *)

\* C1 (as claimed): when a protocol call (set_output_control, set_voltage,
\* get_voltage) has ended, by return or by exception, the session it opened is
\* closed: the driver object it ran on has no open port.
C1_SessionClosedAtEnd ==
    (op \in ProtocolMethods /\ Ended) => ~instances[cur].is_open

\* C2 (as claimed): set_output_control, set_voltage, get_voltage, powercycle and
\* CommonLibIPC.power_cycle never end by raising: every call ends with a result.
C2_NoExceptionEscapes ==
    op \in DriverOps => status # "raised"

\* C3 (as claimed): at every instant at most one serial session on the power
\* supply's port is open in the process, over all driver objects.
C3_AtMostOneOpenSession ==
    Cardinality(OpenSessions) <= 1

\* C4 (as claimed): powercycle runs output-off, settle wait, output-on in this
\* order; when the output-off step fails there is no wait and no output-on
\* command and the call returns False; when the output-on step fails the call
\* returns False; it returns True only if both steps succeeded.
C4_PowercycleAbortsWithFalse ==
    (op = "powercycle" /\ Ended) =>
        /\ \E n \in 0..3 : log = SubSeq(<<"SOUT1", "sleep", "SOUT0">>, 1, n)
        /\ (steps # <<>> /\ steps[1] # "True") =>
              /\ "sleep" \notin Events(log)
              /\ "SOUT0" \notin Events(log)
              /\ status = "returned" /\ res = "False"
        /\ (Len(steps) = 2 /\ steps[2] # "True") =>
              status = "returned" /\ res = "False"
        /\ (status = "returned" /\ res = "True") => steps = <<"True", "True">>

PollOps == {"is_controller_reachable", "check_time_before_restart"}

Last(seq) == seq[Len(seq)]

ErrorFree == "probeE" \notin Events(log)

\* C6 (as claimed): without probe errors check_time_before_restart succeeds
\* exactly when the device became unreachable no later than within_sec after
\* the call started.
C6_SuccessIffDownWithinWindow ==
    (CheckEnded /\ ErrorFree) => (res = "True" <=> downAt <= within_sec)

\* C6 (amended): elapsed time is measured from the start of the call and read
\* when the first unanswered ping returns; without probe errors the call
\* succeeds exactly when that reading is <= within_sec (equality counts as in
\* time).  So it succeeds only if the device went down no later than
\* within_sec, and fails when it went down later or never within the attempts.
C6_SuccessIffSeenDownWithinWindow ==
    (CheckEnded /\ ErrorFree) =>
        /\ status = "returned"
        /\ res = "True" <=> (log # <<>> /\ Last(log) = "probeU" /\ now <= within_sec)
        /\ res = "True" => downAt <= within_sec
        /\ downAt = NotDown => (res = "False" /\ "probeU" \notin Events(log))

\* C6 witness: the device answered, went down before the deadline, and the
\* unanswered ping came back exactly at the deadline: success
C6_Witness ==
    /\ CheckEnded /\ res = "True"
    /\ "probeR" \in Events(log)
    /\ downAt < within_sec
    /\ now = within_sec

\* C7 (as claimed): no two of the outcomes went down in time, went down too
\* late, never went down produce the same returned result.
C7_OutcomesDistinguishable ==
    \A r \in DOMAIN resultsOf : Cardinality(resultsOf[r] \cap WindowOutcomes) <= 1

\* C7 (amended): the returned result tells "went down in time" (True) apart
\* from the other outcomes; "went down too late" and "never went down" both
\* return False, like a probe error, and differ only in the logged message.
C7_OnlyInTimeReturnsTrue ==
    /\ resultsOf["True"] \subseteq {"in_time"}
    /\ "in_time" \notin resultsOf["False"]
    /\ CheckEnded => (res = "True" <=> outcome = "in_time")

\* C7 witness: calls with each of the three outcomes have been made
C7_Witness ==
    /\ resultsOf["True"] = {"in_time"}
    /\ {"too_late", "never_down"} \subseteq resultsOf["False"]

\* C8: is_controller_reachable makes at most `attempts` probes, one sleep of
\* `delay` between two consecutive probes and none after the last, stops at the
\* first answered ping with True, and returns False when all `attempts` pings
\* went unanswered: without probe errors it returns True iff a ping among the
\* first `attempts` was answered.
C8_ReachableLoop ==
    op = "is_controller_reachable" =>
        /\ Probes(log) <= attempts
        /\ \A i \in 1..Len(log) :
              IF i % 2 = 1 THEN IsProbe(log[i]) ELSE log[i] = "sleep"
        /\ \A i \in 1..(Len(log) - 1) : log[i] # "probeR"
        /\ now = delay * Count(log, "sleep")
        /\ Ended =>
              /\ status = "returned"
              /\ log = <<>> \/ IsProbe(Last(log))
              /\ res = "True" <=> (log # <<>> /\ Last(log) = "probeR")
              /\ (ErrorFree /\ res = "False") =>
                    /\ Probes(log) = attempts
                    /\ Count(log, "probeU") = attempts

\* C8 witness: True at the second ping, after an unanswered ping and one sleep,
\* with attempts left
C8_Witness ==
    /\ ReachEnded /\ res = "True"
    /\ log = <<"probeU", "sleep", "probeR">>
    /\ attempt < attempts

\* C9: in both polling loops a probe error ends the call at once with False:
\* nothing follows a probe error in the call's events.
C9_ProbeErrorIsFatal ==
    op \in PollOps =>
        \A i \in 1..Len(log) :
            log[i] = "probeE" =>
                /\ i = Len(log)
                /\ status = "returned"
                /\ res = "False"

\* C9 witness: check_time_before_restart ended by a probe error with attempts left
C9_Witness ==
    /\ CheckEnded
    /\ Len(log) > 1 /\ Last(log) = "probeE"
    /\ attempt < attempts

\* C10 (as claimed): neither polling loop sleeps more than `attempts` times in
\* one call, and check_time_before_restart reports "never went down" after
\* attempts x delay of sleeping.
C10_SleepsAtMostAttempts ==
    op \in PollOps =>
        /\ Count(log, "sleep") <= attempts
        /\ (CheckEnded /\ outcome = "never_down") =>
              delay * Count(log, "sleep") = attempts * delay

-----------------------------------------------------------------------------
(* C11..C20 *)

\* C11 (as claimed): check_time_before_restart reports success only after at
\* least one further probe following the first unreachable result has also
\* reported unreachable.
C11_SuccessAfterConfirmation ==
    (CheckEnded /\ res = "True") => Count(log, "probeU") >= 2

\* C11 (amended): check_time_before_restart polls until the first unanswered
\* ping and ends there: every earlier ping of the call was answered, the
\* unanswered ping is the last event of the call, and the result depends only
\* on the elapsed time read at that moment.  No further probe confirms that the
\* device stays down: a call makes at most one unanswered ping.
C11_EndsAtFirstUnreachable ==
    op = "check_time_before_restart" =>
        /\ Count(log, "probeU") <= 1
        /\ \A i \in 1..(Len(log) - 1) : log[i] \in {"probeR", "sleep"}
        /\ (Ended /\ res = "True") =>
              /\ Last(log) = "probeU"
              /\ Count(log, "probeR") = attempt - 1
              /\ now <= within_sec

\* C11 witness: success at the first unanswered ping, after an answered one
C11_Witness ==
    /\ CheckEnded /\ res = "True"
    /\ log = <<"probeR", "sleep", "sleep", "probeU">>

VoltPrefix == <<"V", "O", "L", "T">>

\* a step in which the caller starts a call of set_voltage
SetVoltageStarts == Idle /\ op' = "set_voltage"

\* C12: a call set_voltage(v) with v < 1.0 or v > 36.0 ends in the step that
\* starts it, rejected by the range check: no port is opened or closed, nothing
\* is written and the supply is untouched.  With 1.0 <= v <= 36.0, both bounds
\* included, the call goes on to open the port with a VOLT command line to
\* write, and whatever such a call writes is that one command line.
C12_RangeCheckBeforeIO ==
    [][/\ SetVoltageStarts =>
            IF voltage' < VOLTAGE_MIN \/ voltage' > VOLTAGE_MAX
            THEN /\ status' = "raised"
                 /\ exc'.type = "ValueError"
                 /\ pc' = "none"
                 /\ written' = <<>>
                 /\ instances' = instances
                 /\ output' = output
            ELSE /\ status' = "running"
                 /\ pc' = "open"
                 /\ SubSeq(cmd', 1, 4) = VoltPrefix
                 /\ written' = <<>>
       /\ op' = "set_voltage" =>
            IF voltage' < VOLTAGE_MIN \/ voltage' > VOLTAGE_MAX
            THEN written' = <<>> /\ status' = "raised"
            ELSE written' \in {<<>>, <<cmd'>>}]_vars

\* C12 witness: set_voltage(36.01) on an existing driver object has been
\* rejected by the range check
C12_Witness ==
    /\ op = "set_voltage" /\ voltage = VOLTAGE_MAX + 1
    /\ instances[cur].exists
    /\ status = "raised" /\ exc.type = "ValueError"

\* round(v * 10) for a voltage v given in hundredths of a volt (no voltage of
\* the model lies halfway between two tenths)
RoundTimes10(v) == (v + 5) \div 10

\* the value field of a command line: what stands between the 4-letter command
\* name and the closing carriage return
ValueField(c) == SubSeq(c, 5, Len(c) - 1)

\* C13 (as claimed): the value sent by set_voltage(v) for an in-range v is
\* round(v*10) written in decimal digits, with leading zeros, at least 2 digits
\* long.
C13_EncodesRounded ==
    (op = "set_voltage" /\ written # <<>>) =>
        LET d == ValueField(written[1])
        IN /\ SubSeq(written[1], 1, 4) = VoltPrefix
           /\ Last(written[1]) = CR
           /\ Len(d) >= 2
           /\ \A i \in 1..Len(d) : IsDigit(d[i])
           /\ DigitsVal(d) = RoundTimes10(voltage)

\* the first n characters of s: all of s when it is shorter
Prefix(s, n) == [i \in 1..(IF Len(s) < n THEN Len(s) ELSE n) |-> s[i]]

\* a get_voltage call that wrote its command and ended with the port closed:
\* __open and __close both went through
GetVoltageOpenedAndClosed ==
    /\ op = "get_voltage" /\ Ended
    /\ written # <<>>
    /\ ~instances[cur].is_open

\* C14: a get_voltage call whose port opened and closed normally has written
\* exactly GETD\r and, when the first 4 characters of the response read in this
\* call form an integer, returns that integer divided by 100 (the model keeps
\* the hundredths: "0360\r" gives 360).  A call returns a number only after it
\* has written GETD\r and read a response itself.
C14_GetVoltageReadsDevice ==
    /\ GetVoltageOpenedAndClosed =>
          /\ written = <<GetdCmd>>
          /\ IntParses(Prefix(response, 4)) =>
                /\ status = "returned" /\ res = "num"
                /\ resNum = DigitsVal(Strip(Prefix(response, 4)))
          /\ response = <<"0", "3", "6", "0", CR>> => resNum = 360
    /\ (op = "get_voltage" /\ Ended /\ res = "num") =>
          /\ written = <<GetdCmd>>
          /\ log = <<"GETD">>
          /\ response # <<>>
          /\ resNum = DigitsVal(Strip(Prefix(response, 4)))

\* C14 witness: get_voltage returned 12.00 V from a response longer than 4
\* characters
C14_Witness ==
    /\ GetVoltageOpenedAndClosed
    /\ response = <<"1", "2", "0", "0", "0", "5", "0", "0", CR>>
    /\ res = "num" /\ resNum = 1200

SOUT0 == <<"S", "O", "U", "T", "0", CR>>

SOUT1 == <<"S", "O", "U", "T", "1", CR>>

\* C15: set_output_control(True) has the command line SOUT0\r and
\* set_output_control(False) has SOUT1\r (inverted polarity), and what such a
\* call writes is exactly that line, once; a powercycle (called directly or
\* through power_cycle) that returns True has written SOUT1\r first and SOUT0\r
\* second, and nothing else.
C15_InvertedPolarity ==
    [][/\ \A k \in Keys, b \in BOOLEAN :
            CallSetOutputControl(k, b) => cmd' = IF b THEN SOUT0 ELSE SOUT1
       /\ op' = "set_output_control" => written' \in {<<>>, <<cmd'>>}
       /\ (op' \in PowercycleOps /\ status' = "returned" /\ res' = "True") =>
            written' = <<SOUT1, SOUT0>>]_vars

\* C15 witness: powercycle returned True after writing SOUT1\r, then SOUT0\r
C15_Witness ==
    /\ op = "powercycle" /\ status = "returned" /\ res = "True"
    /\ written = <<SOUT1, SOUT0>>

SetMethods == {"set_output_control", "set_voltage"}

\* a set_output_control / set_voltage call that wrote its command and ended with
\* the port closed: the response was read and __close went through
SetCallOpenedAndClosed ==
    /\ op \in SetMethods /\ Ended
    /\ written # <<>>
    /\ ~instances[cur].is_open

C17_DiscoveryNeedsExactlyOne ==
    [][\A pos \in Keys, kw \in KwArgs, n \in Matches :
         (Construct(pos, kw, n) /\ ~instances[SingletonKey(pos, kw)].exists) =>
            IF n = 1
            THEN /\ status' = "returned"
                 /\ exc' = NoExc
                 /\ instances'[SingletonKey(pos, kw)].exists
                 /\ ~instances'[SingletonKey(pos, kw)].is_open
            ELSE /\ status' = "raised"
                 /\ instances' = instances
                 /\ exc'.type = "ValueError"
                 /\ exc'.msg = (IF n = 0 THEN "No device with signature found."
                                ELSE "More than one device with signature found.")]_vars

\* C17 witness: a construction has failed because two devices match, and no
\* driver object exists
C17_Witness ==
    /\ op = "construct" /\ status = "raised"
    /\ exc.msg = "More than one device with signature found."
    /\ \A k \in Keys : ~instances[k].exists

\* the baudrate a construction asks for: passed by position, by keyword, or the
\* default
RequestedBaud(pos, kw) ==
    IF pos # <<>> THEN pos[1] ELSE IF kw # <<>> THEN kw[1] ELSE DefaultBaud

\* the driver objects alive
Live == {k \in Keys : instances[k].exists}

\* C18 (as claimed): a construction that returns, returns an object with the
\* configuration asked for, however the arguments were passed, and after any
\* sequence of constructions no two live driver objects have the same
\* configuration.
C18_OneInstancePerArgumentSet ==
    [][\A pos \in Keys, kw \in KwArgs, n \in Matches :
         (Construct(pos, kw, n) /\ status' = "returned") =>
            /\ instances'[cur'].baudrate = RequestedBaud(pos, kw)
            /\ \A k1, k2 \in Keys :
                  (instances'[k1].exists /\ instances'[k2].exists
                   /\ instances'[k1].baudrate = instances'[k2].baudrate) => k1 = k2]_vars

\* a step in which __open ends the protocol method: the port could not be
\* opened, or its buffers could not be reset
OpenEndsCall == status = "running" /\ pc = "open" /\ pc' = "ret"

\* C19 (as claimed): when __open does not open the port, no exception leaves
\* the protocol method: it returns False and has written no command; a
\* powercycle returns False when a step of it has returned False.
C19_OpenFailureReturnsFalse ==
    [][/\ OpenEndsCall =>
            /\ callEnd' = "return"
            /\ callVal' = "False"
            /\ written' = written
       /\ (status = "running" /\ op = "powercycle" /\ pc = "ret"
           /\ callEnd = "return" /\ callVal = "False") =>
            (status' = "returned" /\ res' = "False")]_vars

\* a polling policy that is not positive
InvalidPolicy == attempts <= 0 \/ delay <= 0

\* C20 (as claimed): a call of is_controller_reachable or
\* check_time_before_restart with attempts <= 0 or delay <= 0 is rejected as
\* invalid: it makes no probe, does not sleep, and does not end with an ordinary
\* result (unreachable, never went down, went down in time or too late).
C20_PolicyValidated ==
    (op \in PollOps /\ InvalidPolicy) =>
        /\ log = <<>>
        /\ status # "running"
        /\ outcome \notin {"reachable", "exhausted", "in_time", "too_late", "never_down"}

-----------------------------------------------------------------------------
(* C21..C29 *)

\* C21 (as claimed): when CommonLibIPC.power_cycle leaves its with-scope after
\* powercycle has returned a result, the caller receives that result, also when
\* the port was still open and closing it in __exit__ failed.
C21_TeardownKeepsResult ==
    (op = "power_cycle" /\ Ended /\ callEnd = "return") =>
        (status = "returned" /\ res = callVal)

\* a protocol call that wrote its command and returned with the port open: the
\* response was read, and the port was still open after close()
CloseFailedAtEnd ==
    /\ op \in ProtocolMethods /\ status = "returned"
    /\ written # <<>>
    /\ instances[cur].is_open

C23_PollingTerminates ==
    /\ [](op \in PollOps =>
            /\ Probes(log) <= attempts
            /\ attempts <= 0 => (status = "returned" /\ res = "False" /\ log = <<>>))
    /\ (op \in PollOps /\ status = "running") ~> (op \in PollOps /\ status = "returned")

\* C23 witness: check_time_before_restart has returned after using all its
\* attempts, every ping answered
C23_Witness ==
    /\ CheckEnded /\ outcome = "never_down"
    /\ attempts = MaxAttempts
    /\ Count(log, "probeR") = attempts

\* powercycle has returned after both of its steps ran
PowercycleRanBothSteps ==
    op = "powercycle" /\ status = "returned" /\ Len(steps) = 2

OpenOnOpenPort == status = "running" /\ pc = "open" /\ instances[cur].is_open

C26_SuccessWithoutSeenReachable ==
    (CheckEnded /\ log # <<>> /\ Last(log) = "probeU") =>
        /\ status = "returned"
        /\ res = (IF now <= within_sec THEN "True" ELSE "False")
        /\ (log = <<"probeU">> /\ now <= within_sec) =>
              (res = "True" /\ downAt = 0 /\ "probeR" \notin Events(log))

\* C26 witness: the very first ping went unanswered within the window, and the
\* call returned True
C26_Witness ==
    /\ CheckEnded /\ res = "True"
    /\ log = <<"probeU">>
    /\ within_sec > 0 /\ now > 0
    /\ downAt = 0

\* the positions in `calls` of the calls of f
CallsOf(f) == {i \in 1..Len(calls) : calls[i].f = f}

TestDone(t) == test = t /\ tpc = "done"

\* the number of license activations made before the i-th call
ActivationsBefore(i) == Cardinality({j \in CallsOf("activate_license") : j < i})

\* C27: test_get_status passes only if every license-status response that
\* follows an activation contains every license activated so far
C27_PassNeedsEveryActivatedLicense ==
    (TestDone("test_get_status") /\ result = <<TRUE>>) =>
        \A i \in CallsOf("get_license_status") :
            \A k \in 1..ActivationsBefore(i) : Lic(k) \in calls[i].r[2]

\* a precondition call that did not succeed
PreconditionFailed ==
    \/ \E i \in CallsOf("is_controller_reachable") : i = 1 /\ calls[i].r = FALSE
    \/ \E i \in CallsOf("get_token") : calls[i].r \in {"", "None"}

\* C28: test_factory_reset returns three times False without a factory-reset
\* request when the controller is unreachable or there is no token; otherwise
\* it sends the request once, result[0] tells whether it returned 200,
\* result[1] whether check_time_before_restart succeeded, result[2] is True
\* only after a reachable controller and an is-initial-user answer (200, True),
\* and steps 2 and 3 run whatever step 1 returned
C28_FactoryResetResult ==
    test = "test_factory_reset" =>
        /\ Cardinality(CallsOf("factory_reset")) <= 1
        /\ PreconditionFailed =>
              /\ tpc = "done"
              /\ result = <<FALSE, FALSE, FALSE>>
              /\ CallsOf("factory_reset") = {}
        /\ (tpc = "done" /\ ~PreconditionFailed) =>
              /\ Cardinality(CallsOf("factory_reset")) = 1
              /\ result[1] <=> \E i \in CallsOf("factory_reset") : calls[i].r = 200
              /\ Cardinality(CallsOf("check_time_before_restart")) = 1
              /\ result[2] <=>
                    \E i \in CallsOf("check_time_before_restart") : calls[i].r = TRUE
              /\ Cardinality(CallsOf("is_controller_reachable")) = 2
              /\ result[3] =>
                    /\ \A i \in CallsOf("is_controller_reachable") : calls[i].r = TRUE
                    /\ \E i \in CallsOf("get_initial_user") : calls[i].r = <<200, TRUE>>

\* step 3 passed although steps 1 and 2 did not
C28_Witness ==
    /\ TestDone("test_factory_reset")
    /\ result = <<FALSE, FALSE, TRUE>>

\* a call of test_reboot that did not succeed
RebootStepFailed(c) ==
    CASE c.f = "is_controller_reachable" -> c.r = FALSE
      [] c.f = "get_token" -> c.r \in {"", "None"}
      [] c.f = "reboot" -> c.r # 200
      [] OTHER -> FALSE

\* C29: test_reboot sends the reboot request only after a reachable
\* controller and a token, returns True only after a reboot request that
\* returned 200 and a reachable controller afterwards, and a step that fails
\* is its last step and makes it return False
C29_RebootGuarded ==
    test = "test_reboot" =>
        /\ \A i \in CallsOf("reboot") :
              /\ i = 3
              /\ calls[1] = Call("is_controller_reachable", TRUE)
              /\ calls[2].f = "get_token" /\ calls[2].r \notin {"", "None"}
        /\ (tpc = "done" /\ result = <<TRUE>>) =>
              \E i \in CallsOf("reboot") :
                  /\ calls[i].r = 200
                  /\ \E j \in CallsOf("is_controller_reachable") :
                        j > i /\ calls[j].r = TRUE
        /\ \A i \in 1..Len(calls) :
              RebootStepFailed(calls[i]) =>
                  i = Len(calls) /\ tpc = "done" /\ result = <<FALSE>>

\* the reboot test passed
C29_Witness ==
    /\ TestDone("test_reboot")
    /\ result = <<TRUE>>
    /\ Len(calls) = 5

=============================================================================
